---- MODULE Spec2Model ----
(***************************************************************************)
(* Model of the ShellHub agent's NewAgentServer (src/main.go): the three   *)
(* tunnel handlers (ConnHandler, HTTPHandler, CloseHandler), the           *)
(* reconnection supervisor goroutine and the refresh loop.                 *)
(*                                                                         *)
(* Three specifications share the module, one per group of goroutines      *)
(* whose state is disjoint:                                                *)
(*   Spec      session-open / session-close handlers, the session map      *)
(*             serv.Sessions and the refresh loop that iterates over it;   *)
(*   SpecProxy one HTTP proxy exchange (tun.HTTPHandler);                  *)
(*   SpecSup   the supervisor loop with a clock in seconds.                *)
(***************************************************************************)
EXTENDS Integers, Sequences, FiniteSets, TLC

\* ---------------------------------------------------------------- bounds
MaxReqs == 3
MaxIds == 2
MaxNames == 2
MaxPathLen == 3
MaxBody == 2
MaxEndpointLen == 3

\* time.Second * 10, in seconds
BackoffSecs == 10

Reqs == 1..MaxReqs
Ids == 1..MaxIds
Names == 1..MaxNames

StatusInternalServerError == 500

VARIABLES
    \* ---- session handlers (Spec)
    req,            \* req[r] = [kind, id]: the route of virtual request r and mux.Vars(r)["id"]
    pc,             \* pc[r]: where the handler goroutine of request r stands
    status,         \* status[r]: status written to the ResponseWriter (0: nothing written)
    outcome,        \* outcome[r]: which return of ConnHandler / CloseHandler was taken
    conn,           \* conn[r]: the net.Conn under request r, "open" or "closed"
    Sessions,       \* serv.Sessions: map from id to conn (a conn is named by its request)
    writing,        \* handlers inside the map assignment of line 150
    raced,          \* handlers whose map assignment overlapped another access to the map
    fatal,          \* the Go runtime threw "concurrent map writes": the process is gone
    \* ---- refresh loop (Spec)
    rpc,            \* position of the refresh loop
    sessions,       \* the local slice `sessions` built by the range loop
    startKeys,      \* keys of serv.Sessions when the range loop started
    agentSessions,  \* agent.sessions
    authName,       \* agent.authData.Name
    deviceName,     \* the name last given to serv.SetDeviceName
    authFailed,     \* the last agent.authorize() call returned an error
    keySets         \* while the range loop runs: the key sets serv.Sessions has had
                    \* since the loop began that hold every key produced so far

\* ---- one HTTP proxy exchange (SpecProxy)
VARIABLES
    hreq,           \* the request: [namespace, path, remote]: the X-Namespace and X-Path
                    \* headers and r.RemoteAddr
    body,           \* the bytes the local service answers with before it closes
    hpc,            \* where tun.HTTPHandler stands
    herr,           \* the step that failed ("none" so far)
    inConn,         \* `in`, the conn to the local service: "none", "open", "closed"
    outConn,        \* `out`, the hijacked client stream: "none", "open", "closed"
    hstatus,        \* status of the response written to w (0: none)
    hbody,          \* the parts the text of that response is made of
    hlog,           \* the records logged at level Error
    written,        \* the request target written to `in` by r.Write
    sent,           \* the bytes io.Copy wrote to `out`
    copyRes         \* the error io.Copy returned ("none": it has not returned)

\* ---- supervisor goroutine (SpecSup)
VARIABLES
    spc,            \* where the supervisor loop stands
    listener,       \* the listener of the last newReverseListener: "none", "live",
                    \* "lost" (Listen returned an error), "closed" (it returned nil)
    namespace,      \* agent.authData.Namespace
    sshEndpoint,    \* agent.serverInfo.Endpoints.SSH
    sshid,          \* the sshid last logged
    sleepLeft,      \* seconds of the running time.Sleep still to pass
    lastEvent,      \* how the previous round of the loop ended: "none", "fail" (the
                    \* dial failed), "return" / "returnnil" (Listen returned)
    elapsed,        \* seconds since that end, counted up to BackoffSecs
    attemptGap      \* `elapsed` when the current newReverseListener call was made

supVars == <<spc, listener, namespace, sshEndpoint, sshid, sleepLeft, lastEvent,
             elapsed, attemptGap>>

proxyVars == <<hreq, body, hpc, herr, inConn, outConn, hstatus, hbody, hlog, written, sent,
              copyRes>>

sessVars == <<req, pc, status, outcome, conn, Sessions, writing, raced, fatal,
              rpc, sessions, startKeys, agentSessions, authName, deviceName,
              authFailed, keySets>>

vars == <<sessVars, proxyVars, supVars>>

\* ------------------------------------------------------------ map helpers
\* m[k] = v of a Go map
MapPut(m, k, v) == [x \in (DOMAIN m) \cup {k} |-> IF x = k THEN v ELSE m[x]]

\* delete(m, k) of a Go map
MapDelete(m, k) == [x \in (DOMAIN m) \ {k} |-> m[x]]

EmptyMap == [x \in {} |-> 0]

Range(s) == {s[i] : i \in DOMAIN s}

\* ------------------------------------------------------------------ Init
\* no request has arrived on the slot yet
NoReq == [kind |-> "none", id |-> 0]
NoHTTPReq == [namespace |-> "", path |-> <<>>, remote |-> ""]
\* nothing was written to the ResponseWriter
NoBody == [msg |-> ""]

InitSession ==
    /\ req = [r \in Reqs |-> NoReq]
    /\ pc = [r \in Reqs |-> "idle"]
    /\ status = [r \in Reqs |-> 0]
    /\ outcome = [r \in Reqs |-> "none"]
    /\ conn = [r \in Reqs |-> "open"]
    /\ Sessions = EmptyMap
    /\ writing = {}
    /\ raced = {}
    /\ fatal = FALSE
    /\ rpc = "tick"
    /\ sessions = <<>>
    /\ startKeys = {}
    /\ agentSessions = <<>>
    /\ authName = 1
    /\ deviceName = authName
    /\ authFailed = FALSE
    /\ keySets = {}

\* A path is a short string over "/", "%" and the hex digit "a".
Chars == {"/", "%", "a"}
HexDigits == {"a"}
Paths == UNION {[1..n -> Chars] : n \in 0..MaxPathLen}
Namespaces == {"acme", "beta"}
Bytes == {0, 1}
Bodies == UNION {[1..n -> Bytes] : n \in 0..MaxBody}

InitProxy ==
    /\ hreq = NoHTTPReq
    /\ body = <<>>
    /\ hpc = "idle"
    /\ herr = "none"
    /\ inConn = "none"
    /\ outConn = "none"
    /\ hstatus = 0
    /\ hbody = NoBody
    /\ hlog = <<>>
    /\ written = <<>>
    /\ sent = <<>>
    /\ copyRes = "none"

EndpointChars == {"h", ":", "2"}
Endpoints == UNION {[1..n -> EndpointChars] : n \in 0..MaxEndpointLen}

InitSup ==
    /\ spc = "init"
    /\ listener = "none"
    /\ namespace = ""
    /\ sshEndpoint = <<>>
    /\ sshid = <<>>
    /\ sleepLeft = 0
    /\ lastEvent = "none"
    /\ elapsed = 0
    /\ attemptGap = 0

Init == InitSession /\ InitProxy /\ InitSup

\* ------------------------------------------------- tun.ConnHandler (open)
\* the accept loop dispatches a session-open or session-close directive for
\* id i to a handler goroutine of its own
Dispatch(r) ==
    /\ ~fatal
    /\ pc[r] = "idle"
    /\ \E k \in {"open", "close"}, i \in Ids : req' = [req EXCEPT ![r] = [kind |-> k, id |-> i]]
    /\ pc' = [pc EXCEPT ![r] = "start"]
    /\ UNCHANGED <<proxyVars, supVars>>
    /\ UNCHANGED <<status, outcome, conn, Sessions, writing, raced, fatal,
                   rpc, sessions, startKeys, agentSessions, authName, deviceName,
                   authFailed, keySets>>

\* The key sets the map has had since `for key := range serv.Sessions` began,
\* the key set of m now among them, that hold every key the loop has appended
\* to out.
Track(ks, m, out) == {K \in ks \cup {DOMAIN m} : Range(out) \subseteq K}

\* w.(http.Hijacker) fails: http.Error 500 and return
ConnNotHijacker(r) ==
    /\ ~fatal
    /\ req[r].kind = "open" /\ pc[r] = "start"
    /\ status' = [status EXCEPT ![r] = StatusInternalServerError]
    /\ outcome' = [outcome EXCEPT ![r] = "nohijacker"]
    /\ pc' = [pc EXCEPT ![r] = "done"]
    /\ UNCHANGED <<proxyVars, supVars>>
    /\ UNCHANGED <<req, conn, Sessions, writing, raced, fatal,
                   rpc, sessions, startKeys, agentSessions, authName, deviceName,
                   authFailed, keySets>>

\* a mutant of ConnHijackErr: the failing handler also drops the entry of its id
ConnHijackErrUnregister(r) ==
    /\ ~fatal
    /\ req[r].kind = "open" /\ pc[r] = "start"
    /\ status' = [status EXCEPT ![r] = StatusInternalServerError]
    /\ outcome' = [outcome EXCEPT ![r] = "hijackerr"]
    /\ pc' = [pc EXCEPT ![r] = "done"]
    /\ Sessions' = MapDelete(Sessions, req[r].id)
    /\ UNCHANGED <<proxyVars, supVars>>
    /\ UNCHANGED <<req, conn, writing, raced, fatal,
                   rpc, sessions, startKeys, agentSessions, authName, deviceName,
                   authFailed>>
    /\ keySets' = IF rpc = "range" THEN Track(keySets, Sessions', sessions) ELSE keySets

\* hj.Hijack() returns an error: http.Error 500 and return
ConnHijackErr(r) ==
    /\ ~fatal
    /\ req[r].kind = "open" /\ pc[r] = "start"
    /\ status' = [status EXCEPT ![r] = StatusInternalServerError]
    /\ outcome' = [outcome EXCEPT ![r] = "hijackerr"]
    /\ pc' = [pc EXCEPT ![r] = "done"]
    /\ UNCHANGED <<proxyVars, supVars>>
    /\ UNCHANGED <<req, conn, Sessions, writing, raced, fatal,
                   rpc, sessions, startKeys, agentSessions, authName, deviceName,
                   authFailed, keySets>>

\* the hijack succeeded but r.Context().Value("http-conn") is no net.Conn:
\* a warning is logged and the handler returns; nothing is written to w
ConnNoCtxConn(r) ==
    /\ ~fatal
    /\ req[r].kind = "open" /\ pc[r] = "start"
    /\ outcome' = [outcome EXCEPT ![r] = "noconn"]
    /\ pc' = [pc EXCEPT ![r] = "done"]
    /\ UNCHANGED <<proxyVars, supVars>>
    /\ UNCHANGED <<req, status, conn, Sessions, writing, raced, fatal,
                   rpc, sessions, startKeys, agentSessions, authName, deviceName,
                   authFailed, keySets>>

\* the hijack succeeded and the conn was recovered: on to line 150
ConnHijacked(r) ==
    /\ ~fatal
    /\ req[r].kind = "open" /\ pc[r] = "start"
    /\ pc' = [pc EXCEPT ![r] = "assign"]
    /\ UNCHANGED <<proxyVars, supVars>>
    /\ UNCHANGED <<req, status, outcome, conn, Sessions, writing, raced, fatal,
                   rpc, sessions, startKeys, agentSessions, authName, deviceName,
                   authFailed, keySets>>

\* serv.Sessions[vars["id"]] = conn begins. The map is a plain Go map and the
\* handler holds no lock: an assignment that overlaps another access to the
\* map (another assignment, the range loop of the refresh loop) is a data race.
MapAssignBegin(r) ==
    /\ ~fatal
    /\ req[r].kind = "open" /\ pc[r] = "assign"
    /\ pc' = [pc EXCEPT ![r] = "assigning"]
    /\ writing' = writing \cup {r}
    /\ raced' = IF writing # {} \/ rpc = "range"
                THEN raced \cup writing \cup {r}
                ELSE raced
    /\ UNCHANGED <<proxyVars, supVars>>
    /\ UNCHANGED <<req, status, outcome, conn, Sessions, fatal,
                   rpc, sessions, startKeys, agentSessions, authName, deviceName,
                   authFailed, keySets>>

\* The outcomes of the map assignment of handler r: the entry is stored; or,
\* when the assignment raced, the update is lost or the runtime throws.
AssignOutcomes(r) == IF r \in raced THEN {"stored", "lost", "fatal"} ELSE {"stored"}

\* serv.Sessions[vars["id"]] = conn ends; when the runtime throws, the
\* process stops where it is
MapAssignEnd(r) ==
    /\ ~fatal
    /\ req[r].kind = "open" /\ pc[r] = "assigning"
    /\ \E o \in AssignOutcomes(r) :
          /\ Sessions' = IF o = "stored" THEN MapPut(Sessions, req[r].id, r) ELSE Sessions
          /\ fatal' = (o = "fatal")
          /\ pc' = IF o = "fatal" THEN pc ELSE [pc EXCEPT ![r] = "handle"]
          /\ outcome' = IF o = "fatal" THEN outcome ELSE [outcome EXCEPT ![r] = "assigned"]
    /\ writing' = writing \ {r}
    /\ raced' = raced \ {r}
    /\ UNCHANGED <<proxyVars, supVars>>
    /\ UNCHANGED <<req, status, conn,
                   rpc, sessions, startKeys, agentSessions, authName, deviceName,
                   authFailed>>
    /\ keySets' = IF rpc = "range" THEN Track(keySets, Sessions', sessions) ELSE keySets

\* serv.HandleConn(conn) returns: the session ended, the peer went away or the
\* conn was closed under it. It blocks for as long as it likes.
HandleConn(r) ==
    /\ ~fatal
    /\ req[r].kind = "open" /\ pc[r] = "handle"
    /\ pc' = [pc EXCEPT ![r] = "close"]
    /\ UNCHANGED <<proxyVars, supVars>>
    /\ UNCHANGED <<req, status, outcome, conn, Sessions, writing, raced, fatal,
                   rpc, sessions, startKeys, agentSessions, authName, deviceName,
                   authFailed, keySets>>

\* a mutant of ConnClose: the handler returns without conn.Close()
ConnCloseSkip(r) ==
    /\ ~fatal
    /\ req[r].kind = "open" /\ pc[r] = "close"
    /\ pc' = [pc EXCEPT ![r] = "done"]
    /\ UNCHANGED <<proxyVars, supVars>>
    /\ UNCHANGED <<req, status, outcome, conn, Sessions, writing, raced, fatal,
                   rpc, sessions, startKeys, agentSessions, authName, deviceName,
                   authFailed, keySets>>

\* conn.Close() and return
ConnClose(r) ==
    /\ ~fatal
    /\ req[r].kind = "open" /\ pc[r] = "close"
    /\ conn' = [conn EXCEPT ![r] = "closed"]
    /\ pc' = [pc EXCEPT ![r] = "done"]
    /\ UNCHANGED <<proxyVars, supVars>>
    /\ UNCHANGED <<req, status, outcome, Sessions, writing, raced, fatal,
                   rpc, sessions, startKeys, agentSessions, authName, deviceName,
                   authFailed, keySets>>

ConnHandler(r) ==
    \/ ConnNotHijacker(r)
    \/ ConnHijackErr(r)
    \/ ConnNoCtxConn(r)
    \/ ConnHijacked(r)
    \/ MapAssignBegin(r)
    \/ MapAssignEnd(r)
    \/ HandleConn(r)
    \/ ConnClose(r)

\* ------------------------------------------------------- tun.CloseHandler
\* serv.CloseSession(id): the registry's remove: the session under id, when
\* there is one, is destroyed (its stream closed, its entry deleted); a
\* missing id is a no-op.
CloseSession(i) ==
    /\ Sessions' = MapDelete(Sessions, i)
    /\ conn' = IF i \in DOMAIN Sessions
               THEN [conn EXCEPT ![Sessions[i]] = "closed"]
               ELSE conn

\* a mutant of CloseHandler: it closes every session instead of the one named
CloseHandlerAll(r) ==
    /\ ~fatal
    /\ req[r].kind = "close" /\ pc[r] = "start"
    /\ Sessions' = EmptyMap
    /\ conn' = [c \in Reqs |-> IF c \in Range(Sessions) THEN "closed" ELSE conn[c]]
    /\ raced' = raced \cup writing
    /\ outcome' = [outcome EXCEPT ![r] = "closed"]
    /\ pc' = [pc EXCEPT ![r] = "done"]
    /\ UNCHANGED <<proxyVars, supVars>>
    /\ UNCHANGED <<req, status, writing, fatal,
                   rpc, sessions, startKeys, agentSessions, authName, deviceName,
                   authFailed>>
    /\ keySets' = IF rpc = "range" THEN Track(keySets, Sessions', sessions) ELSE keySets

\* vars := mux.Vars(r); serv.CloseSession(vars["id"]); the handler returns
\* without writing a status of its own.
CloseHandler(r) ==
    /\ ~fatal
    /\ req[r].kind = "close" /\ pc[r] = "start"
    /\ CloseSession(req[r].id)
    /\ raced' = raced \cup writing
    /\ outcome' = [outcome EXCEPT ![r] = "closed"]
    /\ pc' = [pc EXCEPT ![r] = "done"]
    /\ UNCHANGED <<proxyVars, supVars>>
    /\ UNCHANGED <<req, status, writing, fatal,
                   rpc, sessions, startKeys, agentSessions, authName, deviceName,
                   authFailed>>
    /\ keySets' = IF rpc = "range" THEN Track(keySets, Sessions', sessions) ELSE keySets

\* ----------------------------------------------------------- refresh loop
\* a tick of ticker.C: sessions := make([]string, 0, len(serv.Sessions)) and
\* the range loop starts
RefreshTick ==
    /\ ~fatal
    /\ rpc = "tick"
    /\ rpc' = "range"
    /\ sessions' = <<>>
    /\ startKeys' = DOMAIN Sessions
    /\ raced' = raced \cup writing
    /\ UNCHANGED <<proxyVars, supVars>>
    /\ UNCHANGED <<req, pc, status, outcome, conn, Sessions, writing, fatal,
                   agentSessions, authName, deviceName,
                   authFailed>>
    /\ keySets' = {DOMAIN Sessions}

\* one iteration of `for key := range serv.Sessions`: a key of the map not
\* yet produced is appended
RefreshRange ==
    /\ ~fatal
    /\ rpc = "range"
    /\ \E k \in (DOMAIN Sessions) \ Range(sessions) :
          sessions' = Append(sessions, k)
    /\ raced' = raced \cup writing
    /\ UNCHANGED <<proxyVars, supVars>>
    /\ UNCHANGED <<req, pc, status, outcome, conn, Sessions, writing, fatal,
                   rpc, startKeys, agentSessions, authName, deviceName,
                   authFailed>>
    /\ keySets' = Track(keySets, Sessions, sessions')

\* the range loop ends: every entry that was in the map when the loop began
\* and is still there has been produced (an entry created during the
\* iteration may have been skipped); agent.sessions = sessions, and the
\* local slice and the iterator go out of scope
RefreshRangeEnd ==
    /\ ~fatal
    /\ rpc = "range"
    /\ (startKeys \cap DOMAIN Sessions) \subseteq Range(sessions)
    /\ agentSessions' = sessions
    /\ sessions' = <<>>
    /\ startKeys' = {}
    /\ rpc' = "authorize"
    /\ UNCHANGED <<proxyVars, supVars>>
    /\ UNCHANGED <<req, pc, status, outcome, conn, Sessions, writing, raced, fatal,
                   authName, deviceName,
                   authFailed>>
    /\ keySets' = {}

\* serv.SetDeviceName(name)
SetDeviceName(name) == deviceName' = name

\* agent.authorize() succeeds: the collaborator stores the AuthContext it
\* received (any device name)
AuthorizeOk ==
    /\ ~fatal
    /\ rpc = "authorize"
    /\ authName' \in Names
    /\ authFailed' = FALSE
    /\ rpc' = "tick"
    /\ UNCHANGED <<proxyVars, supVars>>
    /\ UNCHANGED <<req, pc, status, outcome, conn, Sessions, writing, raced, fatal,
                   sessions, startKeys, agentSessions, deviceName, keySets>>

\* agent.authorize() fails: serv.SetDeviceName(agent.authData.Name)
AuthorizeErr ==
    /\ ~fatal
    /\ rpc = "authorize"
    /\ SetDeviceName(authName)
    /\ authFailed' = TRUE
    /\ rpc' = "tick"
    /\ UNCHANGED <<proxyVars, supVars>>
    /\ UNCHANGED <<req, pc, status, outcome, conn, Sessions, writing, raced, fatal,
                   sessions, startKeys, agentSessions, authName, keySets>>

RefreshLoop ==
    \/ RefreshTick
    \/ RefreshRange
    \/ RefreshRangeEnd
    \/ AuthorizeOk
    \/ AuthorizeErr

\* -------------------------------------------------------- tun.HTTPHandler
MsgDial == "failed to connect to HTTP the server on device"
MsgParse == "failed to parse URL"
MsgWrite == "failed to write request to the server on device"
MsgHijack == "failed to hijack connection"
MsgCopy == "failed to copy response from device service to client"

\* url.Parse of the X-Path header: a "%" must begin an escape of two hex digits
URLParseOk(p) ==
    \A i \in 1..Len(p) :
        p[i] = "%" => /\ i + 2 <= Len(p)
                      /\ p[i + 1] \in HexDigits
                      /\ p[i + 2] \in HexDigits

\* http.Error(w, msg, code): the response is the status and the message. Once
\* w has been hijacked the write is refused and the client receives nothing.
HTTPError(msg, code) ==
    IF outConn = "none"
    THEN hstatus' = code /\ hbody' = [msg |-> msg]
    ELSE UNCHANGED <<hstatus, hbody>>

\* a mutant of replyError: the error is logged and no response is written
replyErrorLogOnly(err, msg, code) ==
    /\ hlog' = Append(hlog, [err |-> err, msg |-> msg, remote |-> hreq.remote,
                             namespace |-> hreq.namespace, path |-> hreq.path])
    /\ UNCHANGED <<hstatus, hbody>>

\* a mutant of replyError: the record is logged without the request's fields
replyErrorNoFields(err, msg, code) ==
    /\ hlog' = Append(hlog, [err |-> err, msg |-> msg, remote |-> "",
                             namespace |-> "", path |-> <<>>])
    /\ HTTPError(msg, code)

\* replyError: the error is logged with the fields remote, namespace and path,
\* then http.Error(w, msg, code)
replyError(err, msg, code) ==
    /\ hlog' = Append(hlog, [err |-> err, msg |-> msg, remote |-> hreq.remote,
                             namespace |-> hreq.namespace, path |-> hreq.path])
    /\ HTTPError(msg, code)

\* the accept loop dispatches a proxy directive; the local service, when it
\* is reached, will answer with `body`
HTTPDispatch ==
    /\ hpc = "idle"
    /\ hreq' \in [namespace : Namespaces, path : Paths, remote : {"10.0.0.7:4111"}]
    /\ body' \in Bodies
    /\ hpc' = "dial"
    /\ UNCHANGED <<herr, inConn, outConn, hstatus, hbody, hlog, written, sent, copyRes>>
    /\ UNCHANGED <<sessVars, supVars>>

\* in, err := net.Dial("tcp", ":80") fails
HTTPDialErr ==
    /\ hpc = "dial"
    /\ replyError("dial", MsgDial, StatusInternalServerError)
    /\ herr' = "dial"
    /\ hpc' = "done"
    /\ UNCHANGED <<hreq, body, inConn, outConn, written, sent, copyRes>>
    /\ UNCHANGED <<sessVars, supVars>>

\* the dial succeeds; defer in.Close()
HTTPDialOk ==
    /\ hpc = "dial"
    /\ inConn' = "open"
    /\ hpc' = "parse"
    /\ UNCHANGED <<hreq, body, herr, outConn, hstatus, hbody, hlog, written, sent, copyRes>>
    /\ UNCHANGED <<sessVars, supVars>>

\* r.URL.Parse(r.Header.Get("X-Path")) fails; the deferred in.Close() runs
HTTPParseErr ==
    /\ hpc = "parse"
    /\ ~URLParseOk(hreq.path)
    /\ replyError("parse", MsgParse, StatusInternalServerError)
    /\ herr' = "parse"
    /\ inConn' = "closed"
    /\ hpc' = "done"
    /\ UNCHANGED <<hreq, body, outConn, written, sent, copyRes>>
    /\ UNCHANGED <<sessVars, supVars>>

\* the path parses; r.URL = url
HTTPParseOk ==
    /\ hpc = "parse"
    /\ URLParseOk(hreq.path)
    /\ hpc' = "write"
    /\ UNCHANGED <<hreq, body, herr, inConn, outConn, hstatus, hbody, hlog, written, sent, copyRes>>
    /\ UNCHANGED <<sessVars, supVars>>

\* r.Write(in) fails
HTTPWriteErr ==
    /\ hpc = "write"
    /\ replyError("write", MsgWrite, StatusInternalServerError)
    /\ herr' = "write"
    /\ inConn' = "closed"
    /\ hpc' = "done"
    /\ UNCHANGED <<hreq, body, outConn, written, sent, copyRes>>
    /\ UNCHANGED <<sessVars, supVars>>

\* r.Write(in) writes the request, addressed to the parsed path
HTTPWriteOk ==
    /\ hpc = "write"
    /\ written' = hreq.path
    /\ hpc' = "hijack"
    /\ UNCHANGED <<hreq, body, herr, inConn, outConn, hstatus, hbody, hlog, sent, copyRes>>
    /\ UNCHANGED <<sessVars, supVars>>

\* a mutant of HTTPHijackErr: the return skips the deferred in.Close()
HTTPHijackErrLeak ==
    /\ hpc = "hijack"
    /\ replyError("hijack", MsgHijack, StatusInternalServerError)
    /\ herr' = "hijack"
    /\ hpc' = "done"
    /\ UNCHANGED <<hreq, body, inConn, outConn, written, sent, copyRes>>
    /\ UNCHANGED <<sessVars, supVars>>

\* ctr.Hijack() fails
HTTPHijackErr ==
    /\ hpc = "hijack"
    /\ replyError("hijack", MsgHijack, StatusInternalServerError)
    /\ herr' = "hijack"
    /\ inConn' = "closed"
    /\ hpc' = "done"
    /\ UNCHANGED <<hreq, body, outConn, written, sent, copyRes>>
    /\ UNCHANGED <<sessVars, supVars>>

\* ctr.Hijack() succeeds; defer out.Close()
HTTPHijackOk ==
    /\ hpc = "hijack"
    /\ outConn' = "open"
    /\ hpc' = "copy"
    /\ UNCHANGED <<hreq, body, herr, inConn, hstatus, hbody, hlog, written, sent, copyRes>>
    /\ UNCHANGED <<sessVars, supVars>>

\* a mutant of HTTPCopyByte: every byte written is the first byte of the answer
HTTPCopyByteFirst ==
    /\ hpc = "copy"
    /\ Len(sent) < Len(body)
    /\ sent' = Append(sent, body[1])
    /\ UNCHANGED <<hreq, body, hpc, herr, inConn, outConn, hstatus, hbody, hlog, written, copyRes>>
    /\ UNCHANGED <<sessVars, supVars>>

\* io.Copy(out, in) moves the next byte of the answer
HTTPCopyByte ==
    /\ hpc = "copy"
    /\ Len(sent) < Len(body)
    /\ sent' = Append(sent, body[Len(sent) + 1])
    /\ UNCHANGED <<hreq, body, hpc, herr, inConn, outConn, hstatus, hbody, hlog, written, copyRes>>
    /\ UNCHANGED <<sessVars, supVars>>

\* The results io.Copy can return: nil once the local service has closed
\* after its last byte, or at any time an error of the read or of the write.
CopyResults ==
    (IF Len(sent) = Len(body) THEN {"nil"} ELSE {}) \cup {"ErrUnexpectedEOF", "other"}

\* io.Copy returns err; replyError when errors.Is(err, io.ErrUnexpectedEOF);
\* the handler returns and the deferred out.Close() and in.Close() run
HTTPCopyEnd ==
    /\ hpc = "copy"
    /\ \E err \in CopyResults :
          /\ copyRes' = err
          /\ IF err = "ErrUnexpectedEOF"
             THEN /\ replyError(err, MsgCopy, StatusInternalServerError)
                  /\ herr' = "copy"
             ELSE UNCHANGED <<hstatus, hbody, hlog, herr>>
    /\ outConn' = "closed"
    /\ inConn' = "closed"
    /\ hpc' = "done"
    /\ UNCHANGED <<hreq, body, written, sent>>
    /\ UNCHANGED <<sessVars, supVars>>

HTTPHandler ==
    \/ HTTPDispatch
    \/ HTTPDialErr
    \/ HTTPDialOk
    \/ HTTPParseErr
    \/ HTTPParseOk
    \/ HTTPWriteErr
    \/ HTTPWriteOk
    \/ HTTPHijackErr
    \/ HTTPHijackOk
    \/ HTTPCopyByte
    \/ HTTPCopyEnd

NextProxy == HTTPHandler

SpecProxy == Init /\ [][NextProxy]_vars

\* ------------------------------------------------- supervisor goroutine
\* The goroutine lives in the agent's process: once the runtime has thrown
\* (fatal), no goroutine takes a step and no timer of the process runs.
Min(a, b) == IF a < b THEN a ELSE b

\* agent.initialize(): the agent learns its AuthContext and the server's
\* endpoints; then the supervisor goroutine is started
Initialize ==
    /\ ~fatal
    /\ spc = "init"
    /\ namespace' \in Namespaces
    /\ authName' \in Names
    /\ deviceName' = authName'
    /\ sshEndpoint' \in Endpoints
    /\ spc' = "top"
    /\ UNCHANGED <<listener, sshid, sleepLeft, lastEvent, elapsed, attemptGap>>
    /\ UNCHANGED <<req, pc, status, outcome, conn, Sessions, writing, raced, fatal,
                   rpc, sessions, startKeys, agentSessions, authFailed, keySets>>
    /\ UNCHANGED proxyVars

\* one second passes
Tick ==
    /\ ~fatal
    /\ spc # "init"
    /\ elapsed' = Min(elapsed + 1, BackoffSecs)
    /\ sleepLeft' = IF sleepLeft > 0 THEN sleepLeft - 1 ELSE 0
    /\ UNCHANGED <<spc, listener, namespace, sshEndpoint, sshid, lastEvent, attemptGap>>
    /\ UNCHANGED <<sessVars, proxyVars>>

\* a mutant of SupDial: newReverseListener is also called while tun.Listen runs
SupDialWhileListening ==
    /\ ~fatal
    /\ spc \in {"top", "listen"}
    /\ attemptGap' = elapsed
    /\ spc' = "dialing"
    /\ UNCHANGED <<listener, namespace, sshEndpoint, sshid, sleepLeft, lastEvent, elapsed>>
    /\ UNCHANGED <<sessVars, proxyVars>>

\* top of the for loop: agent.newReverseListener() is called
SupDial ==
    /\ ~fatal
    /\ spc = "top"
    /\ attemptGap' = elapsed
    /\ spc' = "dialing"
    /\ UNCHANGED <<listener, namespace, sshEndpoint, sshid, sleepLeft, lastEvent, elapsed>>
    /\ UNCHANGED <<sessVars, proxyVars>>

\* a mutant of SupDialErr: continue without the sleep
SupDialErrNoSleep ==
    /\ ~fatal
    /\ spc = "dialing"
    /\ lastEvent' = "fail"
    /\ elapsed' = 0
    /\ spc' = "top"
    /\ UNCHANGED <<listener, namespace, sshEndpoint, sshid, sleepLeft, attemptGap>>
    /\ UNCHANGED <<sessVars, proxyVars>>

\* newReverseListener returns an error: time.Sleep(time.Second * 10) begins
SupDialErr ==
    /\ ~fatal
    /\ spc = "dialing"
    /\ lastEvent' = "fail"
    /\ elapsed' = 0
    /\ sleepLeft' = BackoffSecs
    /\ spc' = "sleep"
    /\ UNCHANGED <<listener, namespace, sshEndpoint, sshid, attemptGap>>
    /\ UNCHANGED <<sessVars, proxyVars>>

\* time.Sleep returns, no sooner than its duration; continue
SupWake ==
    /\ ~fatal
    /\ spc = "sleep"
    /\ sleepLeft = 0
    /\ spc' = "top"
    /\ UNCHANGED <<listener, namespace, sshEndpoint, sshid, sleepLeft, lastEvent,
                   elapsed, attemptGap>>
    /\ UNCHANGED <<sessVars, proxyVars>>

\* strings.Split(s, ":")[0]: the characters before the first ":"
RECURSIVE SplitFirst(_)
SplitFirst(s) ==
    IF s = <<>> \/ Head(s) = ":" THEN <<>> ELSE <<Head(s)>> \o SplitFirst(Tail(s))

\* the Replacer applied to "{namespace}.{tenantName}@{sshEndpoint}"
SSHID(ns, tenantName, endpoint) ==
    <<ns, ".", tenantName, "@">> \o SplitFirst(endpoint)

\* newReverseListener returns a listener: the sshid is built and logged and
\* tun.Listen(listener) is entered
SupDialOk ==
    /\ ~fatal
    /\ spc = "dialing"
    /\ listener' = "live"
    /\ sshid' = SSHID(namespace, authName, sshEndpoint)
    /\ spc' = "listen"
    /\ UNCHANGED <<namespace, sshEndpoint, sleepLeft, lastEvent, elapsed, attemptGap>>
    /\ UNCHANGED <<sessVars, proxyVars>>

\* tun.Listen returns an error (the control connection is lost): continue
SupListenErr ==
    /\ ~fatal
    /\ spc = "listen"
    /\ listener' = "lost"
    /\ lastEvent' = "return"
    /\ elapsed' = 0
    /\ spc' = "top"
    /\ UNCHANGED <<namespace, sshEndpoint, sshid, sleepLeft, attemptGap>>
    /\ UNCHANGED <<sessVars, proxyVars>>

\* tun.Listen returns nil: the loop body ends and the loop goes round
SupListenNil ==
    /\ ~fatal
    /\ spc = "listen"
    /\ listener' = "closed"
    /\ lastEvent' = "returnnil"
    /\ elapsed' = 0
    /\ spc' = "top"
    /\ UNCHANGED <<namespace, sshEndpoint, sshid, sleepLeft, attemptGap>>
    /\ UNCHANGED <<sessVars, proxyVars>>

Supervisor ==
    \/ SupDial
    \/ SupDialErr
    \/ SupWake
    \/ SupDialOk
    \/ SupListenErr
    \/ SupListenNil

NextSup == Initialize \/ Tick \/ Supervisor

SpecSup == Init /\ [][NextSup]_vars

\* the scheduler runs the goroutine when it can run, and time passes
SpecSupFair ==
    SpecSup /\ WF_vars(Tick) /\ WF_vars(SupDial) /\ WF_vars(SupWake)

\* ------------------------------------------------------------------ Spec
Next ==
    \/ \E r \in Reqs : Dispatch(r)
    \/ \E r \in Reqs : ConnHandler(r)
    \/ \E r \in Reqs : CloseHandler(r)
    \/ RefreshLoop

Spec == Init /\ [][Next]_vars

\* ================================================================ claims
\* a session-open handler whose stream is being bridged by HandleConn
Live(r) == req[r].kind = "open" /\ pc[r] = "handle" /\ conn[r] = "open"

\* this step is the close handler of request c running
CloseStep(c) == req[c].kind = "close" /\ pc[c] = "start" /\ pc'[c] = "done"

\* C1: every id in serv.Sessions maps to a stream that is still open (an
\* entry is gone as soon as its stream has been closed locally).
C1_RegistryStreamsOpen ==
    \A k \in DOMAIN Sessions : conn[Sessions[k]] = "open"

\* C2: a newReverseListener call that follows a return of tun.Listen is made
\* no sooner than BackoffSecs seconds after that return.
C2_BackoffAfterListenReturn ==
    (spc = "dialing" /\ lastEvent \in {"return", "returnnil"})
        => attemptGap >= BackoffSecs

\* C3: a newReverseListener call that follows a failed one is made no sooner
\* than BackoffSecs seconds after that failure.
C3_BackoffAfterDialFailure ==
    (spc = "dialing" /\ lastEvent = "fail") => attemptGap >= BackoffSecs

C3_Witness == spc = "dialing" /\ lastEvent = "fail"

\* C4: when at least two session-open handlers for pairwise distinct ids have
\* all executed their registration, and no close directive was dispatched,
\* the registry holds exactly their entries and the process is running.
C4_NoLostUpdates ==
    LET opens == {r \in Reqs : req[r].kind = "open"} IN
    (/\ Cardinality(opens) >= 2
     /\ \A r \in opens : outcome[r] = "assigned"
     /\ \A r1, r2 \in opens : r1 # r2 => req[r1].id # req[r2].id
     /\ \A r \in Reqs : req[r].kind # "close")
    => /\ ~fatal
       /\ DOMAIN Sessions = {req[r].id : r \in opens}
       /\ \A r \in opens : Sessions[req[r].id] = r

\* C5: the step that ends a handler's registration leaves its id in the
\* registry, HandleConn begins only after it, and while the handler is in
\* HandleConn no step other than a close directive for its id takes the id
\* out of the registry (whose keys hold an id once).
C5_RegisteredUntilClosed ==
    [][\A r \in Reqs :
         /\ (pc'[r] = "handle" /\ pc[r] # "handle")
              => (pc[r] = "assigning" /\ req[r].id \in DOMAIN Sessions')
         /\ (pc[r] = "handle" /\ pc'[r] = "handle" /\ req[r].id \in DOMAIN Sessions
               /\ ~ \E c \in Reqs : CloseStep(c) /\ req[c].id = req[r].id)
              => req[r].id \in DOMAIN Sessions']_vars

C7_OneLiveSessionPerId ==
    \A r1, r2 \in Reqs :
        (r1 # r2 /\ Live(r1) /\ Live(r2)) => req[r1].id # req[r2].id

\* C8: a proxy exchange that failed at the dial, at the URL parse or at the
\* request write has answered 500 and copied nothing to the client.
C8_EarlyFailureIs500 ==
    (hpc = "done" /\ herr \in {"dial", "parse", "write"})
        => (hstatus = StatusInternalServerError /\ sent = <<>>)

C8_Witness == hpc = "done" /\ herr = "write" /\ body # <<>>

C10_StreamFailureIs500 ==
    \A r \in Reqs :
        (pc[r] = "done" /\ outcome[r] \in {"nohijacker", "hijackerr", "noconn"})
            => status[r] = StatusInternalServerError

\* C11: a copy that ended with an unexpected end-of-stream is not reported
\* (nothing is logged, no error status is written), and every other error of
\* the copy is reported.
C11_OnlyUnexpectedEOFExempt ==
    (hpc = "done" /\ copyRes # "none")
        => /\ (copyRes = "ErrUnexpectedEOF" => (hlog = <<>> /\ hstatus = 0))
           /\ (copyRes = "other" => Len(hlog) = 1)

\* C12: when io.Copy ran until the local service closed, the client stream
\* has received exactly the bytes of the answer, in order.
C12_ClientReceivesBody ==
    (hpc = "done" /\ copyRes = "nil") => sent = body

C12_Witness ==
    /\ hpc = "done" /\ copyRes = "nil"
    /\ Len(body) >= 2 /\ body[1] # body[2]

\* C16: when the proxy handler has returned, `in` is closed if the dial
\* succeeded and `out` is closed if the hijack succeeded, on every exit path.
C16_ConnsClosedOnReturn ==
    hpc = "done"
        => /\ inConn = (IF herr = "dial" THEN "none" ELSE "closed")
           /\ outConn = (IF copyRes # "none" THEN "closed" ELSE "none")

C16_Witness == hpc = "done" /\ herr = "hijack" /\ inConn = "closed"

\* the number of ":" in an endpoint
RECURSIVE Colons(_)
Colons(s) == IF s = <<>> THEN 0 ELSE (IF Head(s) = ":" THEN 1 ELSE 0) + Colons(Tail(s))

\* the host portion of an endpoint: "host" is itself, "host:port" loses its
\* port suffix, and an endpoint with more colons is an IPv6 literal, which
\* carries no port suffix outside brackets
HostPortion(e) == IF Colons(e) = 1 THEN SplitFirst(e) ELSE e

\* C15: the sshid built after a successful dial is namespace "." tenantName
\* "@" host, host being the host portion of the SSH endpoint without its port
\* suffix, for every namespace, tenant name and endpoint.
C15_SSHIDFormat ==
    spc = "listen"
        => sshid = <<namespace, ".", authName, "@">> \o HostPortion(sshEndpoint)

\* C20: tun.Listen is entered only from a newReverseListener call that
\* returned a listener, newReverseListener is called only from the top of
\* the loop with no accept loop running, and the accept loop ends back at the
\* top of the loop with its listener no longer served.
C20_SupervisorCycle ==
    [][ /\ (spc' = "listen" /\ spc # "listen")
            => (spc = "dialing" /\ listener # "live" /\ listener' = "live")
        /\ (spc' = "dialing" /\ spc # "dialing")
            => (spc = "top" /\ listener # "live" /\ listener' # "live")
        /\ (spc = "listen" /\ spc' # "listen")
            => (spc' = "top" /\ listener' # "live")
        /\ (listener' = "live") => (spc' = "listen") ]_vars

C20_Witness ==
    spc = "listen" /\ listener = "live" /\ lastEvent \in {"return", "returnnil"}

\* C17: a session-open handler that registered its stream and handed it to
\* serv.HandleConn returns only with the stream closed: the return of
\* HandleConn is followed by conn.Close() and by nothing else.
C17_StreamClosedAfterHandling ==
    \A r \in Reqs :
        /\ (pc[r] = "done" /\ outcome[r] = "assigned") => conn[r] = "closed"
        /\ pc[r] = "close" => outcome[r] = "assigned"

C17_Witness ==
    \E r \in Reqs :
        /\ pc[r] = "done" /\ outcome[r] = "assigned" /\ conn[r] = "closed"
        /\ \A c \in Reqs : req[c].kind # "close"

\* the outcomes of a session-open handler that failed before line 150
FailedOpen == {"nohijacker", "hijackerr", "noconn"}

\* C19: the step in which a session-open handler fails (no Hijacker, Hijack
\* error, no conn in the request context) leaves serv.Sessions as it was and
\* changes the stream of no session.
C19_FailedOpenFrame ==
    [][ \A r \in Reqs :
           (outcome'[r] \in FailedOpen /\ outcome[r] \notin FailedOpen)
               => (Sessions' = Sessions /\ conn' = conn) ]_vars

C19_Witness ==
    \E r \in Reqs, c \in Reqs :
        /\ r # c
        /\ outcome[r] = "hijackerr" /\ pc[r] = "done"
        /\ req[r].id \in DOMAIN Sessions /\ Sessions[req[r].id] = c
        /\ conn[c] = "open"

\* C13: the supervisor never stops: whatever the request handlers do, the
\* supervisor goroutine still has a next step to take.
C13_SupervisorNeverStops == ENABLED NextSup

\* C13, the loop by itself: under SpecSupFair, a failed dial and a return of
\* tun.Listen are each followed by a new newReverseListener call.
C13_RedialEventually ==
    (spc \in {"top", "sleep"} /\ lastEvent # "none") ~> (spc = "dialing")

\* C14: the authorize call that succeeds after a failed one leaves the device
\* name given to serv.SetDeviceName equal to the name of the AuthContext it
\* restored.
C14_NameResyncedAfterRestore ==
    [][ (authFailed /\ ~authFailed') => deviceName' = authName' ]_vars

\* C18: the list assigned to agent.sessions holds no id twice and is the key
\* set serv.Sessions had at one instant of the range loop that built it.
C18_SnapshotIsOneInstant ==
    [][ (rpc = "range" /\ rpc' = "authorize")
            => /\ Range(agentSessions') \in keySets
               /\ Cardinality(Range(agentSessions')) = Len(agentSessions') ]_vars

====
